---- MODULE Spec2Model ----
(***************************************************************************)
(* The generate-idea edge function: per-caller fixed-window rate limiting, *)
(* input sanitization and validation, the outbound gateway call and the    *)
(* recovery of JSON from the gateway's reply.                              *)
(*                                                                         *)
(* Strings are sequences of one-character strings, so that replace, trim,  *)
(* slice, split, toLowerCase and the regular expressions of the source are *)
(* computed character by character.  A JSON string literal inside a        *)
(* gateway reply is one element of the sequence (it starts with a quote).  *)
(***************************************************************************)
EXTENDS Integers, Sequences, FiniteSets, TLC

VARIABLES rateLimitMap, now, reqs, seen

vars == <<rateLimitMap, now, reqs, seen>>

(***************************************************************************)
(* Program constants                                                       *)
(***************************************************************************)
RATE_LIMIT_MAX == 20
RATE_LIMIT_WINDOW_MS == 60 * 60 * 1000
MAX_REQUEST_SIZE == 10000
MAX_STRING_LENGTH == 500
MAX_IDEA_COUNT == 5
MAX_DAYS == 365

(***************************************************************************)
(* Bounds of the model                                                     *)
(***************************************************************************)
\* Date.now() advances by whole windows at most MaxWindows times ...
MaxWindows == 2
\* ... and by single milliseconds while it is less than MaxSkew past a
\* multiple of the window.
MaxSkew == 1
\* Requests of one caller key that reach checkRateLimit within one window.
MaxSeen == 22
\* The same where several caller keys are told apart.
MaxKeySeen == 2

(***************************************************************************)
(* JavaScript values                                                       *)
(***************************************************************************)
Undefined == [t |-> "undefined"]
Null == [t |-> "null"]
Str(s) == [t |-> "string", v |-> s]
Num(n) == [t |-> "number", v |-> n]
Arr(a) == [t |-> "array", v |-> a]
Obj(m) == [t |-> "object", v |-> m]

IsNullish(x) == x.t \in {"null", "undefined"}

\* A property of an object: the value of the last member with that key.
RECURSIVE Lookup(_, _, _)
Lookup(m, k, i) ==
    IF i = 0 THEN Undefined
    ELSE IF m[i].k = k THEN m[i].v ELSE Lookup(m, k, i - 1)

\* o.k for a value that is neither null nor undefined.
Get(o, k) == IF o.t = "object" THEN Lookup(o.v, k, Len(o.v)) ELSE Undefined

WhiteSpace == {" ", "\t", "\n", "\r"}

UpperCase == <<"A", "B", "C", "D", "E", "F", "G", "H", "I", "J", "K", "L", "M",
               "N", "O", "P", "Q", "R", "S", "T", "U", "V", "W", "X", "Y", "Z">>
LowerCase == <<"a", "b", "c", "d", "e", "f", "g", "h", "i", "j", "k", "l", "m",
               "n", "o", "p", "q", "r", "s", "t", "u", "v", "w", "x", "y", "z">>

LowerChar(c) ==
    IF \E i \in 1..26 : UpperCase[i] = c
    THEN LowerCase[CHOOSE i \in 1..26 : UpperCase[i] = c]
    ELSE c

toLowerCase(s) == [i \in 1..Len(s) |-> LowerChar(s[i])]

\* String.prototype.trim: s from its first character that is no white space
\* on, and s up to its last one.
trimStart(s) ==
    IF \A i \in 1..Len(s) : s[i] \in WhiteSpace THEN <<>>
    ELSE SubSeq(s, CHOOSE i \in 1..Len(s) :
                      /\ s[i] \notin WhiteSpace
                      /\ \A j \in 1..(i - 1) : s[j] \in WhiteSpace,
                Len(s))

trimEnd(s) ==
    IF \A i \in 1..Len(s) : s[i] \in WhiteSpace THEN <<>>
    ELSE SubSeq(s, 1, CHOOSE i \in 1..Len(s) :
                         /\ s[i] \notin WhiteSpace
                         /\ \A j \in (i + 1)..Len(s) : s[j] \in WhiteSpace)

trim(s) == trimEnd(trimStart(s))

\* s.slice(0, n)
slice0(s, n) == SubSeq(s, 1, IF Len(s) < n THEN Len(s) ELSE n)

\* s.split(',')[0]
RECURSIVE splitFirst(_)
splitFirst(s) ==
    IF s = <<>> \/ Head(s) = "," THEN <<>>
    ELSE <<Head(s)>> \o splitFirst(Tail(s))

Digits == <<"0", "1", "2", "3", "4", "5", "6", "7", "8", "9">>
IsDigit(c) == \E d \in 1..10 : Digits[d] = c
DigitVal(c) == (CHOOSE d \in 1..10 : Digits[d] = c) - 1

NaN == [nan |-> TRUE, n |-> 0]
Number(n) == [nan |-> FALSE, n |-> n]

\* The value of the longest prefix of digits of s, acc being the value so far.
RECURSIVE digitsValue(_, _)
digitsValue(s, acc) ==
    IF s # <<>> /\ IsDigit(Head(s))
    THEN digitsValue(Tail(s), 10 * acc + DigitVal(Head(s)))
    ELSE acc

\* parseInt(s, 10): leading white space, an optional sign, then digits.
parseInt(s) ==
    LET t == trimStart(s)
        neg == t # <<>> /\ Head(t) = "-"
        u == IF t # <<>> /\ Head(t) \in {"-", "+"} THEN Tail(t) ELSE t
    IN  IF u = <<>> \/ ~IsDigit(Head(u)) THEN NaN
        ELSE Number(IF neg THEN 0 - digitsValue(u, 0) ELSE digitsValue(u, 0))

(***************************************************************************)
(* Rate limiter                                                            *)
(***************************************************************************)
\* A header that the request does not carry.
Absent == [t |-> "null"]
Present(s) == [t |-> "string", v |-> s]

\* A header value is truthy when it is present and not the empty string.
Truthy(h) == h.t = "string" /\ h.v # <<>>

UNKNOWN == <<"u", "n", "k", "n", "o", "w", "n">>

getRateLimitKey_WholeHeader(forwarded, realIp) ==
    LET first == IF forwarded.t = "string" THEN trim(forwarded.v) ELSE <<>>
    IN  IF first # <<>> THEN first
        ELSE IF Truthy(realIp) THEN realIp.v
        ELSE UNKNOWN

getRateLimitKey(forwarded, realIp) ==
    LET first == IF forwarded.t = "string" THEN trim(splitFirst(forwarded.v))
                 ELSE <<>>
    IN  IF first # <<>> THEN first
        ELSE IF Truthy(realIp) THEN realIp.v
        ELSE UNKNOWN

HasRecord(key) == key \in DOMAIN rateLimitMap

\* The window of key is over (or was never opened) at time t.
Expired(key, t) == ~HasRecord(key) \/ t > rateLimitMap[key].resetTime

\* The limit test taken one request too late.
Allowed_OffByOne(key, t) ==
    Expired(key, t) \/ rateLimitMap[key].count <= RATE_LIMIT_MAX

\* checkRateLimit(key).allowed at time t.
Allowed(key, t) == Expired(key, t) \/ rateLimitMap[key].count < RATE_LIMIT_MAX

\* checkRateLimit(key).remaining at time t.
Remaining(key, t) ==
    IF Expired(key, t) THEN RATE_LIMIT_MAX - 1
    ELSE IF rateLimitMap[key].count >= RATE_LIMIT_MAX THEN 0
    ELSE RATE_LIMIT_MAX - (rateLimitMap[key].count + 1)

\* checkRateLimit counting the requests that it denies as well.
MapAfterCheck_NoCap(key, t) ==
    IF Expired(key, t)
    THEN [k \in DOMAIN rateLimitMap \cup {key} |->
            IF k = key THEN [count |-> 1, resetTime |-> t + RATE_LIMIT_WINDOW_MS]
            ELSE rateLimitMap[k]]
    ELSE [rateLimitMap EXCEPT ![key].count = @ + 1]

\* checkRateLimit writing back a count that it read before a suspension:
\* while another request is in flight the increment is lost.
MapAfterCheck_LostUpdate(key, t) ==
    IF Expired(key, t)
    THEN [k \in DOMAIN rateLimitMap \cup {key} |->
            IF k = key THEN [count |-> 1, resetTime |-> t + RATE_LIMIT_WINDOW_MS]
            ELSE rateLimitMap[k]]
    ELSE IF rateLimitMap[key].count >= RATE_LIMIT_MAX THEN rateLimitMap
    ELSE IF \E r \in 1..Len(reqs) : reqs[r].pc \in {"body", "fetch", "text", "json"}
         THEN rateLimitMap
    ELSE [rateLimitMap EXCEPT ![key].count = @ + 1]

\* checkRateLimit with a window that every request opens anew.
MapAfterCheck_SlidingWindow(key, t) ==
    IF Expired(key, t)
    THEN [k \in DOMAIN rateLimitMap \cup {key} |->
            IF k = key THEN [count |-> 1, resetTime |-> t + RATE_LIMIT_WINDOW_MS]
            ELSE rateLimitMap[k]]
    ELSE IF rateLimitMap[key].count >= RATE_LIMIT_MAX
         THEN [rateLimitMap EXCEPT ![key].resetTime = t + RATE_LIMIT_WINDOW_MS]
    ELSE [rateLimitMap EXCEPT ![key].count = @ + 1,
                              ![key].resetTime = t + RATE_LIMIT_WINDOW_MS]

\* The map after checkRateLimit(key) at time t.
MapAfterCheck(key, t) ==
    IF Expired(key, t)
    THEN [k \in DOMAIN rateLimitMap \cup {key} |->
            IF k = key THEN [count |-> 1, resetTime |-> t + RATE_LIMIT_WINDOW_MS]
            ELSE rateLimitMap[k]]
    ELSE IF rateLimitMap[key].count >= RATE_LIMIT_MAX THEN rateLimitMap
    ELSE [rateLimitMap EXCEPT ![key].count = @ + 1]

(***************************************************************************)
(* Input sanitizer and validator                                           *)
(***************************************************************************)
VALID_DIFFICULTIES ==
    { <<"b", "e", "g", "i", "n", "n", "e", "r">>,
      <<"i", "n", "t", "e", "r", "m", "e", "d", "i", "a", "t", "e">>,
      <<"a", "d", "v", "a", "n", "c", "e", "d">>,
      <<"e", "a", "s", "y">>,
      <<"m", "e", "d", "i", "u", "m">>,
      <<"h", "a", "r", "d">> }

VALID_MODES ==
    { <<"h", "a", "c", "k", "a", "t", "h", "o", "n">>,
      <<"s", "t", "a", "r", "t", "u", "p">>,
      <<"a", "c", "a", "d", "e", "m", "i", "c">>,
      <<"b", "e", "g", "i", "n", "n", "e", "r">>,
      <<"p", "e", "r", "s", "o", "n", "a", "l">>,
      <<"l", "e", "a", "r", "n", "i", "n", "g">> }

stripAngles_FirstOnly(s) ==
    IF \E i \in 1..Len(s) : s[i] \in {"<", ">"}
    THEN LET i == CHOOSE i \in 1..Len(s) :
                    /\ s[i] \in {"<", ">"}
                    /\ \A j \in 1..(i - 1) : s[j] \notin {"<", ">"}
         IN  SubSeq(s, 1, i - 1) \o SubSeq(s, i + 1, Len(s))
    ELSE s

\* str.replace(/[<>]/g, "")
stripAngles(s) == SelectSeq(s, LAMBDA c : c \notin {"<", ">"})

sanitizeString(str) ==
    IF str.t # "string" THEN <<>>
    ELSE slice0(trim(stripAngles(str.v)), MAX_STRING_LENGTH)

(***************************************************************************)
(* JSON.parse, for the JSON texts made of objects, arrays, string          *)
(* literals, unsigned integers, null, true and false                       *)
(***************************************************************************)
StringLiterals == <<"\"ideas\"", "\"error\"", "\"title\"", "\"t\"", "\"\"">>
LiteralText == <<"ideas", "error", "title", "t", "">>

IsLiteral(c) == \E i \in 1..Len(StringLiterals) : StringLiterals[i] = c
TextOf(c) == LiteralText[CHOOSE i \in 1..Len(StringLiterals) : StringLiterals[i] = c]

Bool(b) == [t |-> "boolean", v |-> b]

Fail == [ok |-> FALSE, v |-> Undefined, i |-> 0]
Parsed(v, i) == [ok |-> TRUE, v |-> v, i |-> i]

\* The first index from i on that holds no white space (Len(s) + 1 if none).
RECURSIVE SkipWs(_, _)
SkipWs(s, i) ==
    IF i <= Len(s) /\ s[i] \in WhiteSpace THEN SkipWs(s, i + 1) ELSE i

\* The first index from i on that holds no digit.
RECURSIVE SkipDigits(_, _)
SkipDigits(s, i) ==
    IF i <= Len(s) /\ IsDigit(s[i]) THEN SkipDigits(s, i + 1) ELSE i

\* s holds the characters of word from index i on.
StartsWith(s, i, word) ==
    /\ i + Len(word) - 1 <= Len(s)
    /\ \A j \in 1..Len(word) : s[i + j - 1] = word[j]

RECURSIVE ParseValue(_, _), ParseMembers(_, _, _), ParseElements(_, _, _)

\* A value starting at the first non-blank index from i on.
ParseValue(s, i) ==
    LET j == SkipWs(s, i)
    IN  IF j > Len(s) THEN Fail
        ELSE IF s[j] = "{" THEN
            LET k == SkipWs(s, j + 1)
            IN  IF k <= Len(s) /\ s[k] = "}" THEN Parsed(Obj(<<>>), k + 1)
                ELSE ParseMembers(s, k, <<>>)
        ELSE IF s[j] = "[" THEN
            LET k == SkipWs(s, j + 1)
            IN  IF k <= Len(s) /\ s[k] = "]" THEN Parsed(Arr(<<>>), k + 1)
                ELSE ParseElements(s, k, <<>>)
        ELSE IF IsLiteral(s[j]) THEN Parsed(Str(TextOf(s[j])), j + 1)
        ELSE IF IsDigit(s[j]) THEN
            LET k == SkipDigits(s, j)
            IN  Parsed(Num(digitsValue(SubSeq(s, j, k - 1), 0)), k)
        ELSE IF StartsWith(s, j, <<"n", "u", "l", "l">>) THEN Parsed(Null, j + 4)
        ELSE IF StartsWith(s, j, <<"t", "r", "u", "e">>) THEN Parsed(Bool(TRUE), j + 4)
        ELSE IF StartsWith(s, j, <<"f", "a", "l", "s", "e">>)
             THEN Parsed(Bool(FALSE), j + 5)
        ELSE Fail

\* key : value pairs from index i (not blank) on, up to the closing brace.
ParseMembers(s, i, acc) ==
    IF i > Len(s) \/ ~IsLiteral(s[i]) THEN Fail
    ELSE LET c == SkipWs(s, i + 1)
         IN  IF c > Len(s) \/ s[c] # ":" THEN Fail
             ELSE LET r == ParseValue(s, c + 1)
                  IN  IF ~r.ok THEN Fail
                      ELSE LET e == SkipWs(s, r.i)
                               more == Append(acc, [k |-> TextOf(s[i]), v |-> r.v])
                           IN  IF e > Len(s) THEN Fail
                               ELSE IF s[e] = "}" THEN Parsed(Obj(more), e + 1)
                               ELSE IF s[e] = ","
                                    THEN ParseMembers(s, SkipWs(s, e + 1), more)
                               ELSE Fail

\* values from index i on, up to the closing bracket.
ParseElements(s, i, acc) ==
    LET r == ParseValue(s, i)
    IN  IF ~r.ok THEN Fail
        ELSE LET e == SkipWs(s, r.i)
                 more == Append(acc, r.v)
             IN  IF e > Len(s) THEN Fail
                 ELSE IF s[e] = "]" THEN Parsed(Arr(more), e + 1)
                 ELSE IF s[e] = "," THEN ParseElements(s, e + 1, more)
                 ELSE Fail

\* JSON.parse(s): ok is FALSE where JSON.parse throws a SyntaxError.
JSONparse(s) ==
    LET r == ParseValue(s, 1)
    IN  IF r.ok /\ SkipWs(s, r.i) > Len(s) THEN [ok |-> TRUE, v |-> r.v]
        ELSE [ok |-> FALSE, v |-> Undefined]

(***************************************************************************)
(* Response recovery                                                       *)
(***************************************************************************)
\* The grave accent, which a TLA+ string cannot hold, is the element BT.
BT == "BT"
FENCE == <<BT, BT, BT>>
FENCE_JSON == <<BT, BT, BT, "j", "s", "o", "n">>

\* s.replace(/<word>\n?/g, ""), from index i on.
RECURSIVE removeAll(_, _, _)
removeAll(s, i, word) ==
    IF i > Len(s) THEN <<>>
    ELSE IF StartsWith(s, i, word)
         THEN LET j == i + Len(word)
              IN  removeAll(s, IF j <= Len(s) /\ s[j] = "\n" THEN j + 1 ELSE j, word)
    ELSE <<s[i]>> \o removeAll(s, i + 1, word)

cleanContent_JsonTagOnly(s) == trim(removeAll(s, 1, FENCE_JSON))

\* generatedContent with the fence markers replaced by nothing, trimmed.
cleanContent(s) == trim(removeAll(removeAll(s, 1, FENCE_JSON), 1, FENCE))

Positions(s, c) == {i \in 1..Len(s) : s[i] = c}
Min(S) == CHOOSE x \in S : \A y \in S : x <= y
Max(S) == CHOOSE x \in S : \A y \in S : x >= y

jsonMatch_NonGreedy(s) ==
    LET open == Positions(s, "{")
        close == Positions(s, "}")
    IN  IF open # {} /\ \E j \in close : j > Min(open)
        THEN [found |-> TRUE,
              s |-> SubSeq(s, Min(open), Min({j \in close : j > Min(open)}))]
        ELSE [found |-> FALSE, s |-> <<>>]

\* generatedContent.match(/\{[\s\S]*\}/): from the first opening brace to
\* the last closing brace after it.
jsonMatch(s) ==
    LET open == Positions(s, "{")
        close == Positions(s, "}")
    IN  IF open # {} /\ \E j \in close : j > Min(open)
        THEN [found |-> TRUE, s |-> SubSeq(s, Min(open), Max(close))]
        ELSE [found |-> FALSE, s |-> <<>>]

(***************************************************************************)
(* Responses and the stages of the handler                                 *)
(***************************************************************************)
corsHeaders ==
    { <<"Access-Control-Allow-Origin", "*">>,
      <<"Access-Control-Allow-Headers",
        "authorization, x-client-info, apikey, content-type">> }

jsonHeaders == corsHeaders \cup { <<"Content-Type", "application/json">> }

Response(status, body, headers) ==
    [status |-> status, body |-> body, headers |-> headers]

\* JSON.stringify({ error: msg }), as the value it encodes.
ErrorBody(msg) == Obj(<< [k |-> "error", v |-> Str(msg)] >>)

NoResponse == Response(0, Undefined, {})

\* What a stage of the handler comes to: a returned response, a thrown
\* exception, or a suspension at the next await.
Return(resp) == [kind |-> "return", resp |-> resp]
Throw == [kind |-> "throw", resp |-> NoResponse]
Await == [kind |-> "await", resp |-> NoResponse]

MSG_RATE_LIMIT == "Rate limit exceeded. Please try again later."
MSG_TOO_LARGE == "Request too large"
MSG_MISSING == "Missing required fields: domain, audience, difficulty, mode"
MSG_DIFFICULTY == "Invalid difficulty level"
MSG_MODE == "Invalid mode"
MSG_GATEWAY_429 == "Rate limit exceeded. Please try again in a moment."
MSG_GATEWAY_402 == "AI credits exhausted. Please contact support."
MSG_GATEWAY_DOWN == "Service temporarily unavailable. Please try again."
MSG_PROCESS == "Failed to process response. Please try again."
MSG_GENERATE == "Failed to generate ideas. Please try again."
MSG_UNEXPECTED == "An unexpected error occurred. Please try again."

\* The response to a CORS preflight request.
PreflightResponse == Response(200, Null, corsHeaders)

\* The denial without its Retry-After header.
RateLimitResponse_NoHint == Response(429, ErrorBody(MSG_RATE_LIMIT), jsonHeaders)

\* The response to a request that the rate limiter denies.
RateLimitResponse ==
    Response(429, ErrorBody(MSG_RATE_LIMIT),
             jsonHeaders \cup { <<"Retry-After", "3600">> })

\* The handler without its catch clause.
CatchAll_Rethrow(result) == result

\* The catch clause around the body of the handler.
CatchAll(result) ==
    IF result.kind = "throw"
    THEN Return(Response(500, ErrorBody(MSG_UNEXPECTED), jsonHeaders))
    ELSE result

\* contentLength && parseInt(contentLength, 10) > MAX_REQUEST_SIZE
TooLarge(contentLength) ==
    /\ Truthy(contentLength)
    /\ ~parseInt(contentLength.v).nan
    /\ parseInt(contentLength.v).n > MAX_REQUEST_SIZE

\* The size check, up to the suspension at req.json().
SizeStage(contentLength) ==
    IF TooLarge(contentLength)
    THEN Return(Response(413, ErrorBody(MSG_TOO_LARGE), jsonHeaders))
    ELSE Await

\* The size check made before the rate-limit result is looked at.
EntryStage_SizeFirst(rateCheck, contentLength) ==
    IF TooLarge(contentLength) THEN CatchAll(SizeStage(contentLength))
    ELSE IF ~rateCheck.allowed THEN Return(RateLimitResponse)
    ELSE Await

\* The handler of a request that is no preflight, from the rate-limit check
\* to its first await; rateCheck is the result of checkRateLimit.
EntryStage(rateCheck, contentLength) ==
    IF ~rateCheck.allowed THEN Return(RateLimitResponse)
    ELSE CatchAll(SizeStage(contentLength))

\* The number n + 1/2, n an integer.
Half(n) == [t |-> "number", v |-> n, half |-> TRUE]
IsHalf(x) == x.t = "number" /\ "half" \in DOMAIN x

\* The decimal digits of n >= 0.
RECURSIVE digitsOf(_)
digitsOf(n) ==
    IF n < 10 THEN <<Digits[n + 1]>>
    ELSE digitsOf(n \div 10) \o <<Digits[(n % 10) + 1]>>

\* String(x) for a number x.
numberToString(x) ==
    IF IsHalf(x)
    THEN IF x.v >= 0 THEN digitsOf(x.v) \o <<".", "5">>
         ELSE <<"-">> \o digitsOf(0 - x.v - 1) \o <<".", "5">>
    ELSE IF x.v >= 0 THEN digitsOf(x.v) ELSE <<"-">> \o digitsOf(0 - x.v)

\* String(val), the conversion of a value to a string.
RECURSIVE StringOf(_), joinFrom(_, _)
StringOf(val) ==
    IF val.t = "string" THEN val.v
    ELSE IF val.t = "number" THEN numberToString(val)
    ELSE IF val.t = "undefined" THEN <<"u", "n", "d", "e", "f", "i", "n", "e", "d">>
    ELSE IF val.t = "null" THEN <<"n", "u", "l", "l">>
    ELSE IF val.t = "boolean"
         THEN IF val.v THEN <<"t", "r", "u", "e">> ELSE <<"f", "a", "l", "s", "e">>
    ELSE IF val.t = "array" THEN joinFrom(val.v, 1)
    ELSE <<"[", "o", "b", "j", "e", "c", "t", " ", "O", "b", "j", "e", "c", "t", "]">>

\* The elements of a from index i on, joined by commas; null and undefined
\* give the empty string.
joinFrom(a, i) ==
    IF i > Len(a) THEN <<>>
    ELSE (IF IsNullish(a[i]) THEN <<>> ELSE StringOf(a[i]))
         \o (IF i < Len(a) THEN <<",">> \o joinFrom(a, i + 1) ELSE <<>>)

\* x < m and x > m for a number x and an integer m.
Below(x, m) == x.v < m
Above(x, m) == IF IsHalf(x) THEN x.v >= m ELSE x.v > m

\* The number that is returned, a value of type number.
validateNumber(val, min, max, defaultVal) ==
    IF val.t # "number" /\ parseInt(StringOf(val)).nan THEN Num(defaultVal)
    ELSE LET num == IF val.t = "number" THEN val
                    ELSE Num(parseInt(StringOf(val)).n)
         IN  IF Below(num, min) THEN Num(min)
             ELSE IF Above(num, max) THEN Num(max)
             ELSE num

StringFields ==
    {"domain", "audience", "difficulty", "mode", "skills", "constraints"}

\* The sanitized and validated inputs, the locals of the handler.
Params(body) ==
    [ domain |-> sanitizeString(Get(body, "domain")),
      audience |-> sanitizeString(Get(body, "audience")),
      difficulty |-> sanitizeString(Get(body, "difficulty")),
      mode |-> sanitizeString(Get(body, "mode")),
      skills |-> sanitizeString(Get(body, "skills")),
      constraints |-> sanitizeString(Get(body, "constraints")),
      time_available_days |->
          validateNumber(Get(body, "time_available_days"), 1, MAX_DAYS, 7),
      multi_idea_count |->
          validateNumber(Get(body, "multi_idea_count"), 1, MAX_IDEA_COUNT, 3) ]

\* The locals before they are assigned.
NoParams ==
    [ domain |-> <<>>, audience |-> <<>>, difficulty |-> <<>>, mode |-> <<>>,
      skills |-> <<>>, constraints |-> <<>>,
      time_available_days |-> Undefined, multi_idea_count |-> Undefined ]

\* !domain || !audience || !difficulty || !mode, on the sanitized fields.
MissingRequired(body) ==
    \/ sanitizeString(Get(body, "domain")) = <<>>
    \/ sanitizeString(Get(body, "audience")) = <<>>
    \/ sanitizeString(Get(body, "difficulty")) = <<>>
    \/ sanitizeString(Get(body, "mode")) = <<>>

\* The difficulty compared without toLowerCase.
ValidDifficulty_CaseSensitive(body) ==
    sanitizeString(Get(body, "difficulty")) \in VALID_DIFFICULTIES

ValidDifficulty(body) ==
    toLowerCase(sanitizeString(Get(body, "difficulty"))) \in VALID_DIFFICULTIES

ValidMode(body) ==
    toLowerCase(sanitizeString(Get(body, "mode"))) \in VALID_MODES

\* The enumeration checks made before the required-field check.
ValidateStage_EnumFirst(read) ==
    IF read.throws \/ IsNullish(read.v) THEN Throw
    ELSE IF ~ValidDifficulty(read.v)
         THEN Return(Response(400, ErrorBody(MSG_DIFFICULTY), jsonHeaders))
    ELSE IF ~ValidMode(read.v)
         THEN Return(Response(400, ErrorBody(MSG_MODE), jsonHeaders))
    ELSE IF MissingRequired(read.v)
         THEN Return(Response(400, ErrorBody(MSG_MISSING), jsonHeaders))
    ELSE Await

\* From the completion of req.json() to the call of fetch; read is the
\* outcome of req.json().
ValidateStage(read) ==
    IF read.throws \/ IsNullish(read.v) THEN Throw
    ELSE IF MissingRequired(read.v)
         THEN Return(Response(400, ErrorBody(MSG_MISSING), jsonHeaders))
    ELSE IF ~ValidDifficulty(read.v)
         THEN Return(Response(400, ErrorBody(MSG_DIFFICULTY), jsonHeaders))
    ELSE IF ~ValidMode(read.v)
         THEN Return(Response(400, ErrorBody(MSG_MODE), jsonHeaders))
    ELSE Await

\* response.ok
Ok(status) == 200 <= status /\ status <= 299

\* Every gateway failure mapped to 500.
GatewayErrorStage_All500(status) ==
    Return(Response(500, ErrorBody(MSG_GATEWAY_DOWN), jsonHeaders))

\* The response for a gateway reply whose status is not a success, once
\* its text has been read.
GatewayErrorStage(status) ==
    IF status = 429
    THEN Return(Response(429, ErrorBody(MSG_GATEWAY_429), jsonHeaders))
    ELSE IF status = 402
    THEN Return(Response(402, ErrorBody(MSG_GATEWAY_402), jsonHeaders))
    ELSE Return(Response(500, ErrorBody(MSG_GATEWAY_DOWN), jsonHeaders))

\* a[i] for an array a
Index(a, i) ==
    IF a.t = "array" /\ i < Len(a.v) THEN a.v[i + 1] ELSE Undefined

\* data.choices[0].message.content: throws where a property of null or
\* undefined is read.
ContentOf(data) ==
    IF IsNullish(data) THEN [throws |-> TRUE, v |-> Undefined]
    ELSE IF IsNullish(Get(data, "choices")) THEN [throws |-> TRUE, v |-> Undefined]
    ELSE IF IsNullish(Index(Get(data, "choices"), 0))
         THEN [throws |-> TRUE, v |-> Undefined]
    ELSE IF IsNullish(Get(Index(Get(data, "choices"), 0), "message"))
         THEN [throws |-> TRUE, v |-> Undefined]
    ELSE [throws |-> FALSE,
          v |-> Get(Get(Index(Get(data, "choices"), 0), "message"), "content")]

\* The try block of the recovery: the direct parse of the cleaned content
\* and the check of its structure.  ok is FALSE where the block throws.
DirectParse(text) ==
    LET p == JSONparse(cleanContent(text))
    IN  IF ~p.ok \/ IsNullish(p.v) THEN [ok |-> FALSE, v |-> Undefined]
        ELSE IF Get(p.v, "ideas").t # "array" THEN [ok |-> FALSE, v |-> Undefined]
        ELSE [ok |-> TRUE, v |-> p.v]

FallbackParse_SwappedMessages(text) ==
    IF jsonMatch(text).found
    THEN IF JSONparse(jsonMatch(text).s).ok
         THEN Return(Response(200, JSONparse(jsonMatch(text).s).v, jsonHeaders))
         ELSE Return(Response(500, ErrorBody(MSG_GENERATE), jsonHeaders))
    ELSE Return(Response(500, ErrorBody(MSG_PROCESS), jsonHeaders))

\* The catch block of the recovery: the brace-delimited substring of the
\* original content, parsed.
FallbackParse(text) ==
    IF jsonMatch(text).found
    THEN IF JSONparse(jsonMatch(text).s).ok
         THEN Return(Response(200, JSONparse(jsonMatch(text).s).v, jsonHeaders))
         ELSE Return(Response(500, ErrorBody(MSG_PROCESS), jsonHeaders))
    ELSE Return(Response(500, ErrorBody(MSG_GENERATE), jsonHeaders))

\* From the completion of response.json() to the response; read is the
\* outcome of response.json().
RecoverStage(read) ==
    IF read.throws \/ ContentOf(read.v).throws THEN Throw
    ELSE LET content == ContentOf(read.v).v
         IN  IF content.t # "string" THEN Throw
             ELSE IF DirectParse(content.v).ok
                  THEN Return(Response(200, DirectParse(content.v).v, jsonHeaders))
             ELSE FallbackParse(content.v)

(***************************************************************************)
(* Inputs                                                                  *)
(***************************************************************************)
Methods == {"OPTIONS", "POST"}

\* x-forwarded-for and x-real-ip
ForwardedFor == {Absent}
RealIps == {Absent}

\* content-length: none, the largest size accepted, the smallest refused,
\* and one that is no number.
ContentLengths ==
    { Absent,
      Present(<<"1", "0", "0", "0", "0">>),
      Present(<<"1", "0", "0", "0", "1">>),
      Present(<<"a", "b", "c">>) }

\* An object with the members whose value is not undefined.
ObjectOf(members) == Obj(SelectSeq(members, LAMBDA m : m.v # Undefined))

Domains ==
    { Undefined, Str(<<" ", "<", ">", " ">>),
      Str(<<"f", "i", "t", "n", "e", "s", "s">>) }
Audiences == { Num(42), Str(<<"s", "t", "u", "d", "e", "n", "t", "s">>) }
Difficulties ==
    { Undefined, Str(<<" ", "<", "H", "a", "r", "d", ">", " ">>),
      Str(<<"e", "x", "p", "e", "r", "t">>),
      Str(<<"S", "t", "a", "r", "t", "u", "p">>) }
Modes ==
    { Undefined, Str(<<"S", "t", "a", "r", "t", "u", "p">>),
      Str(<<"H", "a", "r", "d">>), Str(<<>>) }

Read(v) == [throws |-> FALSE, v |-> v]
ReadFails == [throws |-> TRUE, v |-> Undefined]

\* The outcomes of req.json(): a SyntaxError, null, a number, or an object.
Bodies ==
    { ReadFails, Read(Null), Read(Num(5)) } \cup
    { Read(ObjectOf(<< [k |-> "domain", v |-> d], [k |-> "audience", v |-> a],
                       [k |-> "difficulty", v |-> f], [k |-> "mode", v |-> m] >>)) :
        d \in Domains, a \in Audiences, f \in Difficulties, m \in Modes }

\* The bodies given as text: no bytes, white space only, and the empty
\* object.
RawBodies == { <<>>, <<" ", "\n">>, <<"{", "}">> }

\* The outcomes of fetch: a network failure, or a reply with a status.
GatewayStatuses == {200, 201, 402, 429, 500, 503}
Fetched(status) == [throws |-> FALSE, status |-> status]
FetchFails == [throws |-> TRUE, status |-> 0]
FetchOutcomes == { FetchFails } \cup { Fetched(st) : st \in GatewayStatuses }

\* The outcomes of response.text()
TextOutcomes == { Read(Str(<<>>)), ReadFails }

\* Gateway replies.
J_IDEAS == << "{", "\"ideas\"", ":", "[", "]", "}" >>
J_ONE == << "{", "\"ideas\"", ":", " ", "[", "{", "\"title\"", ":", "\"t\"",
            "}", "]", "}" >>
J_ERROR == << "{", "\"error\"", ":", "\"t\"", "}" >>
J_IDEAS_STRING == << "{", "\"ideas\"", ":", "\"t\"", "}" >>
PROSE == << "H", "i", ":", " " >>
PROSE_BRACE == << "U", "s", "e", " ", "{", "}", ":", " " >>

\* The text j between code fences, with and without the language tag and
\* with and without line ends after the fences.
Fenced(j) ==
    { FENCE_JSON \o <<"\n">> \o j \o <<"\n">> \o FENCE,
      FENCE_JSON \o j \o FENCE,
      FENCE \o <<"\n">> \o j \o <<"\n">> \o FENCE \o <<"\n">>,
      FENCE \o j \o FENCE }

Replies ==
    Fenced(J_IDEAS) \cup Fenced(J_ONE) \cup
    { J_IDEAS, J_ONE, J_ERROR, J_IDEAS_STRING,
      PROSE \o J_ONE,
      PROSE_BRACE \o J_ONE,
      << "{", "\"ideas\"", ":", "[", "]", BT, BT, BT, "}" >>,
      << "}", " ", "{" >>,
      PROSE \o J_ERROR,
      PROSE,
      PROSE \o << "{", "\"ideas\"", ":", "[", "}" >>,
      << "n", "u", "l", "l" >>,
      << "[", "]" >>,
      << "{", "}" >>,
      << "4", "2" >> }

\* A gateway body with the given content.
Completion(content) ==
    Obj(<< [k |-> "choices",
            v |-> Arr(<< Obj(<< [k |-> "message",
                                 v |-> Obj(<< [k |-> "content", v |-> content] >>)]
                              >>) >>)] >>)

\* The outcomes of response.json()
GatewayBodies ==
    { ReadFails, Read(Null), Read(Obj(<<>>)),
      Read(Obj(<< [k |-> "choices", v |-> Arr(<<>>)] >>)),
      Read(Completion(Null)), Read(Completion(Num(7))) } \cup
    { Read(Completion(Str(text))) : text \in Replies }

(***************************************************************************)
(* The handler as a state machine                                          *)
(***************************************************************************)
NoCheck == [allowed |-> FALSE]

\* A request slot that handles no request.
IdleRequest ==
    [ pc |-> "idle", method |-> "", forwarded |-> Absent, realIp |-> Absent,
      contentLength |-> Absent, key |-> <<>>, rateCheck |-> NoCheck,
      body |-> Read(Undefined), calls |-> 0, gateway |-> FetchFails,
      text |-> Read(Undefined), data |-> Read(Undefined), resp |-> NoResponse,
      raw |-> Absent, params |-> NoParams ]

reqJson_EmptyIsObject(text) ==
    IF text = <<>> THEN Read(Obj(<<>>))
    ELSE IF JSONparse(text).ok THEN Read(JSONparse(text).v) ELSE ReadFails

\* req.json() on a body of the given text.
reqJson(text) ==
    IF JSONparse(text).ok THEN Read(JSONparse(text).v) ELSE ReadFails

\* The locals of the handler once req.json() has come to read.
ParamsOf(read) ==
    IF read.throws \/ IsNullish(read.v) THEN NoParams ELSE Params(read.v)

Slots == DOMAIN reqs

\* Where the handler stands after a stage that came to result, the next
\* await being at pc next.
After(req, result, next) ==
    IF result.kind = "return" THEN [req EXCEPT !.pc = "done", !.resp = result.resp]
    ELSE IF result.kind = "throw" THEN [req EXCEPT !.pc = "crashed"]
    ELSE [req EXCEPT !.pc = next]

\* The requests of key that reached checkRateLimit in its current window,
\* one more arriving at time t.
SeenAfter(key, t) == IF Expired(key, t) THEN 1 ELSE seen[key] + 1

Init ==
    /\ rateLimitMap = <<>>
    /\ seen = <<>>
    /\ now = 0
    /\ reqs = << IdleRequest >>

\* Date.now() advances by d.
Tick(d) ==
    /\ \/ d = 1 /\ now % RATE_LIMIT_WINDOW_MS < MaxSkew
       \/ d = RATE_LIMIT_WINDOW_MS /\ now \div RATE_LIMIT_WINDOW_MS < MaxWindows
    /\ now' = now + d
    /\ UNCHANGED <<rateLimitMap, reqs, seen>>

\* A CORS preflight request arrives and is answered.
Preflight_Counted(r, forwarded, realIp, contentLength) ==
    LET key == getRateLimitKey(forwarded, realIp)
    IN  /\ reqs[r].pc = "idle"
        /\ rateLimitMap' = MapAfterCheck(key, now)
        /\ reqs' = [reqs EXCEPT ![r] =
                      [IdleRequest EXCEPT !.pc = "done", !.method = "OPTIONS",
                                          !.forwarded = forwarded,
                                          !.realIp = realIp,
                                          !.contentLength = contentLength,
                                          !.key = key,
                                          !.resp = IF Allowed(key, now)
                                                   THEN PreflightResponse
                                                   ELSE RateLimitResponse]]
        /\ UNCHANGED <<now, seen>>

Preflight(r, forwarded, realIp, contentLength) ==
    /\ reqs[r].pc = "idle"
    /\ reqs' = [reqs EXCEPT ![r] =
                  [IdleRequest EXCEPT !.pc = "done", !.method = "OPTIONS",
                                      !.forwarded = forwarded, !.realIp = realIp,
                                      !.contentLength = contentLength,
                                      !.resp = PreflightResponse]]
    /\ UNCHANGED <<rateLimitMap, now, seen>>

\* Any other request arrives: the handler runs up to its first await.  At
\* most cap requests of a key arrive within one window.
Arrive(r, method, forwarded, realIp, contentLength, cap) ==
    LET key == getRateLimitKey(forwarded, realIp)
        rateCheck == [allowed |-> Allowed(key, now)]
        req == [IdleRequest EXCEPT !.method = method, !.forwarded = forwarded,
                                   !.realIp = realIp,
                                   !.contentLength = contentLength,
                                   !.key = key, !.rateCheck = rateCheck]
    IN  /\ reqs[r].pc = "idle"
        /\ method # "OPTIONS"
        /\ SeenAfter(key, now) <= cap
        /\ rateLimitMap' = MapAfterCheck(key, now)
        /\ seen' = [k \in DOMAIN seen \cup {key} |->
                      IF k = key THEN SeenAfter(key, now) ELSE seen[k]]
        /\ reqs' = [reqs EXCEPT ![r] =
                      After(req, EntryStage(rateCheck, contentLength), "body")]
        /\ UNCHANGED now

\* A handler that gives the slot back to a caller whose request it rejects.
BodyRead_Refund(r, read) ==
    /\ reqs[r].pc = "body"
    /\ LET result == CatchAll(ValidateStage(read))
       IN  /\ reqs' = [reqs EXCEPT ![r] =
                         After([reqs[r] EXCEPT !.body = read,
                                               !.params = ParamsOf(read),
                                               !.calls = IF result.kind = "await"
                                                         THEN @ + 1 ELSE @],
                               result, "fetch")]
           /\ rateLimitMap' =
                 IF result.kind = "return" /\ rateLimitMap[reqs[r].key].count > 1
                 THEN [rateLimitMap EXCEPT ![reqs[r].key].count = @ - 1]
                 ELSE rateLimitMap
    /\ UNCHANGED <<now, seen>>

\* req.json() completes with the outcome read.
BodyRead(r, read) ==
    /\ reqs[r].pc = "body"
    /\ LET result == CatchAll(ValidateStage(read))
       IN  reqs' = [reqs EXCEPT ![r] =
                      After([reqs[r] EXCEPT !.body = read,
                                            !.params = ParamsOf(read),
                                            !.calls = IF result.kind = "await"
                                                      THEN @ + 1 ELSE @],
                            result, "fetch")]
    /\ UNCHANGED <<rateLimitMap, now, seen>>

\* The body of the request arrives as the given text and req.json()
\* completes on it.
BodyText(r, text) ==
    /\ reqs[r].pc = "body"
    /\ LET read == reqJson(text)
           result == CatchAll(ValidateStage(read))
       IN  reqs' = [reqs EXCEPT ![r] =
                      After([reqs[r] EXCEPT !.raw = Present(text),
                                            !.body = read,
                                            !.params = ParamsOf(read),
                                            !.calls = IF result.kind = "await"
                                                      THEN @ + 1 ELSE @],
                            result, "fetch")]
    /\ UNCHANGED <<rateLimitMap, now, seen>>

FetchDone_Retry(r, got) ==
    /\ reqs[r].pc = "fetch"
    /\ reqs' = [reqs EXCEPT ![r] =
                  IF got.throws /\ reqs[r].calls < 2
                  THEN [reqs[r] EXCEPT !.calls = @ + 1]
                  ELSE After([reqs[r] EXCEPT !.gateway = got],
                             CatchAll(IF got.throws THEN Throw ELSE Await),
                             IF Ok(got.status) THEN "json" ELSE "text")]
    /\ UNCHANGED <<rateLimitMap, now, seen>>

\* fetch completes with the outcome got.
FetchDone(r, got) ==
    /\ reqs[r].pc = "fetch"
    /\ reqs' = [reqs EXCEPT ![r] =
                  After([reqs[r] EXCEPT !.gateway = got],
                        CatchAll(IF got.throws THEN Throw ELSE Await),
                        IF Ok(got.status) THEN "json" ELSE "text")]
    /\ UNCHANGED <<rateLimitMap, now, seen>>

\* response.text() of a reply that is no success completes.
TextDone(r, read) ==
    /\ reqs[r].pc = "text"
    /\ reqs' = [reqs EXCEPT ![r] =
                  After([reqs[r] EXCEPT !.text = read],
                        CatchAll(IF read.throws THEN Throw
                                 ELSE GatewayErrorStage(reqs[r].gateway.status)),
                        "done")]
    /\ UNCHANGED <<rateLimitMap, now, seen>>

\* response.json() of a successful reply completes.
JsonDone(r, read) ==
    /\ reqs[r].pc = "json"
    /\ reqs' = [reqs EXCEPT ![r] =
                  After([reqs[r] EXCEPT !.data = read],
                        CatchAll(RecoverStage(read)), "done")]
    /\ UNCHANGED <<rateLimitMap, now, seen>>

\* The response has been sent; the slot takes the next request.
Finish(r) ==
    /\ reqs[r].pc = "done"
    /\ reqs' = [reqs EXCEPT ![r] = IdleRequest]
    /\ UNCHANGED <<rateLimitMap, now, seen>>

\* One step of the system, the inputs being drawn from the given sets.
Step(ticks, forwardeds, realIps, lengths, bodies, rawBodies, fetches, texts, jsons, cap) ==
    \/ \E d \in ticks : Tick(d)
    \/ \E r \in Slots, f \in forwardeds, i \in realIps, c \in lengths :
          Preflight(r, f, i, c)
    \/ \E r \in Slots, m \in Methods, f \in forwardeds, i \in realIps,
          c \in lengths : Arrive(r, m, f, i, c, cap)
    \/ \E r \in Slots, b \in bodies : BodyRead(r, b)
    \/ \E r \in Slots, b \in rawBodies : BodyText(r, b)
    \/ \E r \in Slots, g \in fetches : FetchDone(r, g)
    \/ \E r \in Slots, t \in texts : TextDone(r, t)
    \/ \E r \in Slots, j \in jsons : JsonDone(r, j)
    \/ \E r \in Slots : Finish(r)

\* One request at a time, with every input of the pipeline.
Next ==
    Step({RATE_LIMIT_WINDOW_MS}, ForwardedFor, RealIps, ContentLengths, Bodies,
         RawBodies, FetchOutcomes, TextOutcomes, GatewayBodies, MaxSeen)

Spec == Init /\ [][Next]_vars

\* Two requests in flight, each failing or succeeding at every stage once.
InitRate ==
    /\ rateLimitMap = <<>>
    /\ seen = <<>>
    /\ now = 0
    /\ reqs = << IdleRequest, IdleRequest >>

RateBodies ==
    { Read(ObjectOf(<< [k |-> "domain", v |-> d], [k |-> "audience", v |-> a],
                       [k |-> "difficulty", v |-> f], [k |-> "mode", v |-> m] >>)) :
        d \in {Str(<<"f", "i", "t", "n", "e", "s", "s">>)},
        a \in {Str(<<"s", "t", "u", "d", "e", "n", "t", "s">>)},
        f \in {Undefined, Str(<<"e", "a", "s", "y">>)},
        m \in {Str(<<"S", "t", "a", "r", "t", "u", "p">>)} }

NextRate ==
    Step({1, RATE_LIMIT_WINDOW_MS}, {Absent}, {Absent}, {Absent}, RateBodies,
         {<<>>}, {FetchFails, Fetched(200), Fetched(429)}, {Read(Str(<<>>))},
         {Read(Completion(Str(J_IDEAS))), Read(Completion(Str(PROSE)))}, MaxSeen)

SpecRate == InitRate /\ [][NextRate]_vars

\* The character c, n times.
Repeat(c, n) == [i \in 1..n |-> c]

\* Values sent as string fields: absent, no string, short strings with
\* tags and white space around, and strings of more than 500 characters.
InputStrings ==
    { Undefined, Null, Bool(TRUE), Num(5), Arr(<<Str(<<"a">>)>>), Obj(<<>>),
      Str(<<>>), Str(<<" ", "\t">>),
      Str(<<"f", "i", "t", "n", "e", "s", "s">>),
      Str(<<" ", "<", "b", ">", "h", "i", "<", "/", "b", ">", "\n">>),
      Str(<<"<">> \o Repeat("x", 600) \o <<">">>),
      Str(<<"a">> \o Repeat(" ", 499) \o <<"b">>),
      Str(Repeat(" ", 600) \o <<"<", "a", ">">> \o Repeat(" ", 600)),
      Str(Repeat("<", 300) \o <<" ">> \o Repeat("y", 499) \o <<" ", "z">>) }

\* Values sent as number fields: absent, no number, integers around the
\* two ranges, numbers with a fractional part, and strings.
InputNumbers ==
    { Undefined, Null, Bool(TRUE), Obj(<<>>), Arr(<<>>), Arr(<<Num(4)>>),
      Num(-1), Num(0), Num(1), Num(3), Num(5), Num(6), Num(365), Num(366),
      Num(999), Half(0), Half(2), Half(5), Half(364), Half(365),
      Str(<<>>), Str(<<"a", "b", "c">>), Str(<<"4">>), Str(<<"2", ".", "5">>),
      Str(<<" ", "1", "2", "p", "x">>), Str(<<"-", "7">>) }

\* Bodies whose other fields are valid: one value in the string fields
\* domain, skills and constraints, or one value in the two number fields.
InputBodies ==
    { Read(ObjectOf(<< [k |-> "domain", v |-> v],
                       [k |-> "audience", v |-> Str(<<"s", "t", "u", "d", "e", "n", "t", "s">>)],
                       [k |-> "difficulty", v |-> Str(<<"e", "a", "s", "y">>)],
                       [k |-> "mode", v |-> Str(<<"s", "t", "a", "r", "t", "u", "p">>)],
                       [k |-> "skills", v |-> v],
                       [k |-> "constraints", v |-> v] >>)) : v \in InputStrings }
    \cup
    { Read(ObjectOf(<< [k |-> "domain", v |-> Str(<<"f", "i", "t", "n", "e", "s", "s">>)],
                       [k |-> "audience", v |-> Str(<<"s", "t", "u", "d", "e", "n", "t", "s">>)],
                       [k |-> "difficulty", v |-> Str(<<"e", "a", "s", "y">>)],
                       [k |-> "mode", v |-> Str(<<"s", "t", "a", "r", "t", "u", "p">>)],
                       [k |-> "time_available_days", v |-> n],
                       [k |-> "multi_idea_count", v |-> n] >>)) : n \in InputNumbers }

NextInput ==
    Step({RATE_LIMIT_WINDOW_MS}, {Absent}, {Absent}, {Absent}, InputBodies,
         {<<"{", "}">>}, {FetchFails, Fetched(200), Fetched(500)},
         {Read(Str(<<>>))}, {ReadFails}, MaxSeen)

SpecInput == Init /\ [][NextInput]_vars

\* Values of x-forwarded-for: absent, empty, a list whose first entry has
\* white space around it, and a list whose first entry is blank.
KeyForwardeds ==
    { Absent, Present(<<>>), Present(<<" ", "1", " ", ",", "2">>),
      Present(<<" ", ",", "1">>) }

\* Values of x-real-ip: absent, empty, and an address.
KeyRealIps == { Absent, Present(<<>>), Present(<<"2">>) }

\* Requests of several caller keys, at most MaxKeySeen of a key in one
\* window.
NextKeys ==
    Step({RATE_LIMIT_WINDOW_MS}, KeyForwardeds, KeyRealIps, {Absent}, RateBodies,
         {<<>>}, {Fetched(200), Fetched(500)}, {Read(Str(<<>>))}, {ReadFails},
         MaxKeySeen)

SpecKeys == Init /\ [][NextKeys]_vars

(***************************************************************************)
(* Properties                                                              *)
(***************************************************************************)
\* Slot r takes a request that is no preflight in this step.
ArrivesAt(r) ==
    reqs[r].pc = "idle" /\ reqs'[r].pc # "idle" /\ reqs'[r].method # "OPTIONS"

\* The handler of slot r has returned a response to a request that is no
\* preflight.
Answered(r) == reqs[r].pc = "done" /\ reqs[r].method # "OPTIONS"

RetryAfter == <<"Retry-After", "3600">>

\* C1: of the requests of one caller key that reach checkRateLimit within
\* one window, the first 20 are allowed and the 21st and every later one
\* are answered 429; the first request after the window has elapsed is
\* allowed and restarts the record at count 1, resetTime now + window.
C1_TwentyPerWindow ==
    [][\A r \in Slots : ArrivesAt(r) =>
        LET k == reqs'[r].key
        IN  /\ seen'[k] <= 20 =>
                 /\ reqs'[r].rateCheck.allowed
                 /\ reqs'[r].resp.status # 429
            /\ seen'[k] > 20 =>
                 /\ reqs'[r].pc = "done"
                 /\ reqs'[r].resp.status = 429
            /\ (k \in DOMAIN rateLimitMap /\ now > rateLimitMap[k].resetTime) =>
                 /\ seen'[k] = 1
                 /\ reqs'[r].rateCheck.allowed
                 /\ rateLimitMap'[k] = [count |-> 1, resetTime |-> now + 3600000]
            /\ (k \in DOMAIN rateLimitMap /\ now <= rateLimitMap[k].resetTime) =>
                 seen'[k] = seen[k] + 1
      ]_vars

\* The 21st request of a window has been denied.
C1_Witness ==
    \E r \in Slots :
        /\ Answered(r)
        /\ reqs[r].resp.status = 429
        /\ seen[reqs[r].key] = 21
        /\ now <= rateLimitMap[reqs[r].key].resetTime

\* C2: every record of the rate-limit map has 1 <= count <= 20.
C2_CountInRange ==
    \A k \in DOMAIN rateLimitMap :
        1 <= rateLimitMap[k].count /\ rateLimitMap[k].count <= 20

\* A caller at the maximum has been denied.
C2_Witness ==
    \E k \in DOMAIN rateLimitMap : rateLimitMap[k].count = 20 /\ seen[k] > 20

\* C3: a 200 response to a request that is no preflight carries a body
\* whose ideas field is a list.
C3_OkHasIdeasList ==
    \A r \in Slots :
        (Answered(r) /\ reqs[r].resp.status = 200) =>
            /\ reqs[r].resp.body.t = "object"
            /\ Get(reqs[r].resp.body, "ideas").t = "array"

\* C4: a request whose declared content-length exceeds 10,000 is answered
\* 413 before the rate-limit record of its caller is consulted or changed.
C4_SizeBeforeRate ==
    [][\A r \in Slots :
          (ArrivesAt(r) /\ TooLarge(reqs'[r].contentLength)) =>
              /\ reqs'[r].pc = "done"
              /\ reqs'[r].resp.status = 413
              /\ rateLimitMap' = rateLimitMap
      ]_vars

\* C4 as amended: the rate-limit check comes before the size check.  A
\* request whose declared content-length exceeds 10,000 is counted by the
\* rate limiter first; it is answered 429 when its caller is at the limit
\* within the window, and otherwise 413, its slot being consumed.
C4_RateBeforeSize ==
    [][\A r \in Slots :
          (ArrivesAt(r) /\ TooLarge(reqs'[r].contentLength)) =>
              LET k == reqs'[r].key
                  inWindow == k \in DOMAIN rateLimitMap
                              /\ now <= rateLimitMap[k].resetTime
              IN  /\ reqs'[r].pc = "done"
                  /\ IF inWindow /\ rateLimitMap[k].count >= 20
                     THEN /\ reqs'[r].resp.status = 429
                          /\ rateLimitMap' = rateLimitMap
                     ELSE /\ reqs'[r].resp.status = 413
                          /\ rateLimitMap'[k].count =
                                IF inWindow THEN rateLimitMap[k].count + 1 ELSE 1
      ]_vars

\* An oversized request of a caller at the limit has been answered 429.
C4_Witness ==
    \E r \in Slots :
        /\ Answered(r)
        /\ TooLarge(reqs[r].contentLength)
        /\ reqs[r].resp.status = 429

FixedMessages ==
    { MSG_RATE_LIMIT, MSG_TOO_LARGE, MSG_MISSING, MSG_DIFFICULTY, MSG_MODE,
      MSG_GATEWAY_429, MSG_GATEWAY_402, MSG_GATEWAY_DOWN, MSG_PROCESS,
      MSG_GENERATE, MSG_UNEXPECTED }

\* C5: no exception leaves the handler; a request has no response while
\* the handler runs and one when it is done; a response that is not 200
\* has a status in {400, 402, 413, 429, 500} and a body {error: message},
\* the message being one of the fixed strings.
C5_StructuredErrors ==
    \A r \in Slots :
        /\ reqs[r].pc # "crashed"
        /\ reqs[r].pc # "done" => reqs[r].resp = NoResponse
        /\ reqs[r].pc = "done" => reqs[r].resp.status # 0
        /\ (Answered(r) /\ reqs[r].resp.status # 200) =>
              /\ reqs[r].resp.status \in {400, 402, 413, 429, 500}
              /\ \E m \in FixedMessages :
                    reqs[r].resp.body =
                        [t |-> "object",
                         v |-> << [k |-> "error", v |-> [t |-> "string", v |-> m]] >>]

\* A body that is no JSON has been answered 500 by the catch clause.
C5_Witness ==
    \E r \in Slots :
        /\ Answered(r)
        /\ reqs[r].body.throws
        /\ reqs[r].resp.status = 500
        /\ reqs[r].resp.body = ErrorBody(MSG_UNEXPECTED)

\* C6: every 429 response carries the header Retry-After: 3600.
C6_Every429RetryAfter ==
    \A r \in Slots :
        (Answered(r) /\ reqs[r].resp.status = 429) =>
            RetryAfter \in reqs[r].resp.headers

\* C6 as amended: a 429 response produced by the local rate limiter carries
\* Retry-After: 3600; a 429 response that maps a gateway 429 carries no
\* Retry-After header.
C6_Local429RetryAfter ==
    \A r \in Slots :
        (Answered(r) /\ reqs[r].resp.status = 429) =>
            IF reqs[r].rateCheck.allowed
            THEN /\ reqs[r].gateway = Fetched(429)
                 /\ \A h \in reqs[r].resp.headers : h[1] # "Retry-After"
            ELSE /\ reqs[r].calls = 0
                 /\ RetryAfter \in reqs[r].resp.headers

\* The rate limiter has denied a request.
C6_Witness ==
    \E r \in Slots :
        /\ Answered(r)
        /\ ~reqs[r].rateCheck.allowed
        /\ reqs[r].resp.status = 429
        /\ RetryAfter \in reqs[r].resp.headers

\* req.json() has completed for the request of slot r.
BodyWasRead(r) == reqs[r].method # "OPTIONS" /\ reqs[r].body # Read(Undefined)

\* fetch has completed for the request of slot r.
FetchWasDone(r) == reqs[r].calls = 1 /\ reqs[r].pc \in {"text", "json", "done"}

Unexpected500(r) ==
    /\ reqs[r].pc = "done"
    /\ reqs[r].resp.status = 500
    /\ reqs[r].resp.body = ErrorBody(MSG_UNEXPECTED)

\* C7: a gateway reply with a status s that is no success is answered 429
\* if s = 429, 402 if s = 402 and 500 otherwise, once its text has been
\* read, and its body is never read as JSON; a throw of fetch or of the
\* reading of the reply is answered 500 with the unexpected-error message.
C7_GatewayFailureMapping ==
    \A r \in Slots : FetchWasDone(r) =>
        /\ reqs[r].gateway.throws => Unexpected500(r)
        /\ (~reqs[r].gateway.throws /\ ~(reqs[r].gateway.status \in 200..299)) =>
              /\ reqs[r].data = Read(Undefined)
              /\ (reqs[r].pc = "done" /\ reqs[r].text.throws) => Unexpected500(r)
              /\ (reqs[r].pc = "done" /\ ~reqs[r].text.throws) =>
                    /\ reqs[r].resp.status =
                          IF reqs[r].gateway.status \in {402, 429}
                          THEN reqs[r].gateway.status ELSE 500
                    /\ reqs[r].resp.body \in
                          { ErrorBody(MSG_GATEWAY_429), ErrorBody(MSG_GATEWAY_402),
                            ErrorBody(MSG_GATEWAY_DOWN) }
        /\ (~reqs[r].gateway.throws /\ reqs[r].gateway.status \in 200..299
            /\ reqs[r].pc = "done" /\ reqs[r].data.throws) => Unexpected500(r)

\* A gateway 402 has been answered 402.
C7_Witness ==
    \E r \in Slots :
        /\ Answered(r)
        /\ reqs[r].gateway = Fetched(402)
        /\ ~reqs[r].text.throws
        /\ reqs[r].resp.status = 402

\* C8: the increment made for an allowed request is never reversed.  The
\* step in which a request is rejected with 400 or fails at the gateway or
\* in the recovery leaves the rate-limit map unchanged, and the count of a
\* record never decreases within its window.
C8_IncrementKept ==
    [][/\ \A r \in Slots :
            (reqs[r].pc \in {"body", "fetch", "text", "json"}
             /\ reqs'[r].pc = "done") => rateLimitMap' = rateLimitMap
       /\ \A k \in DOMAIN rateLimitMap :
            /\ k \in DOMAIN rateLimitMap'
            /\ \/ /\ rateLimitMap'[k].resetTime = rateLimitMap[k].resetTime
                  /\ rateLimitMap'[k].count >= rateLimitMap[k].count
               \/ /\ rateLimitMap'[k].resetTime > rateLimitMap[k].resetTime
                  /\ rateLimitMap'[k].count = 1
       /\ \A r \in Slots : (ArrivesAt(r) /\ reqs'[r].rateCheck.allowed) =>
            LET k == reqs'[r].key
            IN  rateLimitMap'[k].count =
                   IF k \in DOMAIN rateLimitMap
                      /\ now <= rateLimitMap[k].resetTime
                   THEN rateLimitMap[k].count + 1 ELSE 1
      ]_vars

\* Two allowed requests of a window have both been rejected with 400 and
\* both are counted.
C8_Witness ==
    /\ \A r \in Slots :
          /\ Answered(r)
          /\ reqs[r].rateCheck.allowed
          /\ reqs[r].resp.status = 400
    /\ \E k \in DOMAIN rateLimitMap : rateLimitMap[k].count = 2 /\ seen[k] = 2

RequiredFields == {"domain", "audience", "difficulty", "mode"}

\* The field is absent, is no string, or sanitizes to the empty string.
FieldUnusable(v) ==
    \/ v.t # "string"
    \/ \A i \in 1..Len(v.v) : v.v[i] \in WhiteSpace \cup {"<", ">"}

\* C9: a body that is a JSON object in which one of domain, audience,
\* difficulty, mode is absent, is no string or sanitizes to the empty
\* string is answered 400 with the missing-fields message, whatever the
\* values of difficulty and mode, and the gateway is not called.
C9_MissingFields ==
    \A r \in Slots :
        ( /\ BodyWasRead(r)
          /\ ~reqs[r].body.throws
          /\ reqs[r].body.v.t = "object"
          /\ \E f \in RequiredFields : FieldUnusable(Get(reqs[r].body.v, f)) ) =>
            /\ reqs[r].pc = "done"
            /\ reqs[r].resp.status = 400
            /\ reqs[r].resp.body =
                  ErrorBody("Missing required fields: domain, audience, difficulty, mode")
            /\ reqs[r].calls = 0

\* A body without domain whose difficulty is outside the enumeration has
\* been answered with the missing-fields message.
C9_Witness ==
    \E r \in Slots :
        /\ Answered(r)
        /\ BodyWasRead(r)
        /\ ~reqs[r].body.throws
        /\ reqs[r].body.v.t = "object"
        /\ Get(reqs[r].body.v, "domain") = Undefined
        /\ Get(reqs[r].body.v, "difficulty") = Str(<<"e", "x", "p", "e", "r", "t">>)
        /\ reqs[r].resp.body = ErrorBody(MSG_MISSING)

ClaimedDifficulties ==
    { <<"b", "e", "g", "i", "n", "n", "e", "r">>,
      <<"i", "n", "t", "e", "r", "m", "e", "d", "i", "a", "t", "e">>,
      <<"a", "d", "v", "a", "n", "c", "e", "d">>, <<"e", "a", "s", "y">>,
      <<"m", "e", "d", "i", "u", "m">>, <<"h", "a", "r", "d">> }

ClaimedModes ==
    { <<"h", "a", "c", "k", "a", "t", "h", "o", "n">>,
      <<"s", "t", "a", "r", "t", "u", "p">>, <<"a", "c", "a", "d", "e", "m", "i", "c">>,
      <<"b", "e", "g", "i", "n", "n", "e", "r">>,
      <<"p", "e", "r", "s", "o", "n", "a", "l">>,
      <<"l", "e", "a", "r", "n", "i", "n", "g">> }

\* C10: with the four required fields not empty, the request goes on to
\* the gateway exactly when the lower-cased difficulty and the lower-cased
\* mode are in their enumerations; otherwise it is answered 400, with
\* 'Invalid difficulty level' when the difficulty is invalid and with
\* 'Invalid mode' when only the mode is.
C10_Enumerations ==
    \A r \in Slots :
        ( /\ BodyWasRead(r)
          /\ ~reqs[r].body.throws
          /\ reqs[r].body.v.t = "object"
          /\ \A f \in RequiredFields : ~FieldUnusable(Get(reqs[r].body.v, f)) ) =>
            LET d == toLowerCase(sanitizeString(Get(reqs[r].body.v, "difficulty")))
                m == toLowerCase(sanitizeString(Get(reqs[r].body.v, "mode")))
            IN  IF d \in ClaimedDifficulties /\ m \in ClaimedModes
                THEN /\ reqs[r].calls = 1
                     /\ reqs[r].resp.status # 400
                ELSE /\ reqs[r].pc = "done"
                     /\ reqs[r].calls = 0
                     /\ reqs[r].resp.status = 400
                     /\ reqs[r].resp.body =
                          IF d \notin ClaimedDifficulties
                          THEN ErrorBody("Invalid difficulty level")
                          ELSE ErrorBody("Invalid mode")

\* A difficulty written in mixed case has passed the enumeration check.
C10_Witness ==
    \E r \in Slots :
        /\ BodyWasRead(r)
        /\ reqs[r].calls = 1
        /\ sanitizeString(Get(reqs[r].body.v, "difficulty")) = <<"H", "a", "r", "d">>

\* The request of slot r was a POST that passed the rate limiter and the
\* size check and whose body had no bytes.
EmptyPost(r) ==
    /\ reqs[r].method = "POST"
    /\ reqs[r].rateCheck.allowed
    /\ reqs[r].raw = Present(<<>>)

\* C11 as stated: a POST request with an empty body (no bytes) from a
\* caller that is not rate-limited is answered with HTTP 400.
C11_EmptyBody400 ==
    \A r \in Slots : (EmptyPost(r) /\ reqs[r].pc = "done") =>
        reqs[r].resp.status = 400

\* C11 amended: a POST request with an empty body (no bytes) from a caller
\* that is not rate-limited is answered at once with HTTP 500 and the
\* unexpected-error message, because req.json() throws on it; no gateway
\* call is made for it.
C11_EmptyBody500 ==
    \A r \in Slots : EmptyPost(r) =>
        /\ Unexpected500(r)
        /\ reqs[r].body = ReadFails
        /\ reqs[r].calls = 0

\* A POST with an empty body has been answered.
C11_Witness ==
    \E r \in Slots :
        /\ EmptyPost(r)
        /\ reqs[r].pc = "done"
        /\ reqs[r].resp.status = 500

\* The request of slot r has passed every stage that comes before the
\* gateway call: the rate limiter, the size check, the reading of the body
\* as JSON, the required fields and the two enumerations.
PassedAllChecks(r) ==
    /\ reqs[r].method # "OPTIONS"
    /\ reqs[r].rateCheck.allowed
    /\ ~TooLarge(reqs[r].contentLength)
    /\ BodyWasRead(r)
    /\ ~reqs[r].body.throws
    /\ ~IsNullish(reqs[r].body.v)
    /\ \A f \in RequiredFields : ~FieldUnusable(Get(reqs[r].body.v, f))
    /\ toLowerCase(sanitizeString(Get(reqs[r].body.v, "difficulty")))
          \in ClaimedDifficulties
    /\ toLowerCase(sanitizeString(Get(reqs[r].body.v, "mode"))) \in ClaimedModes

\* C12: each request causes at most one gateway call and never a retry (a
\* request whose call has failed is answered at once), and a gateway call
\* is made only for a request that was allowed by the rate limiter, passed
\* the size check, parsed as JSON and passed the required-field and the
\* enumeration checks; a request rejected before causes no gateway call.
C12_SingleGatewayCall ==
    \A r \in Slots :
        /\ reqs[r].calls <= 1
        /\ reqs[r].calls = 1 => PassedAllChecks(r)
        /\ reqs[r].pc \in {"fetch", "text", "json"} => reqs[r].calls = 1
        /\ (reqs[r].calls = 1 /\ reqs[r].pc # "fetch" /\ reqs[r].gateway.throws) =>
              reqs[r].pc = "done"
        /\ (reqs[r].pc = "done" /\ reqs[r].resp.status \in {400, 413}) =>
              reqs[r].calls = 0
        /\ (reqs[r].pc = "done" /\ ~reqs[r].rateCheck.allowed) => reqs[r].calls = 0

\* A request whose one gateway call failed has been answered 500 without a
\* second call.
C12_Witness ==
    \E r \in Slots :
        /\ reqs[r].calls = 1
        /\ reqs[r].gateway = FetchFails
        /\ Unexpected500(r)

\* The body of the request of slot r was read as an object, so that the
\* sanitized and validated locals of the handler have been assigned.
ParamsAssigned(r) ==
    /\ BodyWasRead(r)
    /\ ~reqs[r].body.throws
    /\ reqs[r].body.v.t = "object"

\* C13: for every input value v, sanitizeString(v) is a string that
\* contains neither < nor > and has at most 500 characters, and it is the
\* empty string whenever v is not a string.
C13_SanitizedFields ==
    \A r \in Slots : ParamsAssigned(r) =>
        \A f \in StringFields :
            LET v == Get(reqs[r].body.v, f)
                out == reqs[r].params[f]
            IN  /\ \A i \in 1..Len(out) : out[i] \notin {"<", ">"}
                /\ Len(out) <= 500
                /\ v.t # "string" => out = <<>>

\* A field of more than 500 characters between two angle brackets has
\* been sanitized to 500 characters.
C13_Witness ==
    \E r \in Slots :
        /\ ParamsAssigned(r)
        /\ Get(reqs[r].body.v, "skills").t = "string"
        /\ Len(Get(reqs[r].body.v, "skills").v) = 602
        /\ Get(reqs[r].body.v, "skills").v[1] = "<"
        /\ Len(reqs[r].params.skills) = 500

\* C14: every sanitized string field is trimmed, also when the stripped
\* string is longer than 500 characters: it has no leading and no trailing
\* white space, so that sanitizing it once more gives the same string.
C14_TrimmedIdempotent ==
    \A r \in Slots : ParamsAssigned(r) =>
        \A f \in StringFields :
            LET out == reqs[r].params[f]
            IN  /\ out # <<>> =>
                      (out[1] \notin WhiteSpace /\ out[Len(out)] \notin WhiteSpace)
                /\ sanitizeString(Str(out)) = out

\* The number x is an integer of the range lo..hi.
IntegerIn(x, lo, hi) == x.t = "number" /\ ~IsHalf(x) /\ x.v \in lo..hi

\* C15: validateNumber returns an integer in [min, max] when its input
\* coerces to a number and the default otherwise; in the handler
\* multi_idea_count is an integer of 1..5 (0 becomes 1, 999 becomes 5,
\* absent becomes 3) and time_available_days is an integer of 1..365
\* (absent becomes 7).
C15_ValidatedNumbers ==
    \A r \in Slots : ParamsAssigned(r) =>
        LET n == Get(reqs[r].body.v, "multi_idea_count")
            d == Get(reqs[r].body.v, "time_available_days")
        IN  /\ IntegerIn(reqs[r].params.multi_idea_count, 1, MAX_IDEA_COUNT)
            /\ IntegerIn(reqs[r].params.time_available_days, 1, MAX_DAYS)
            /\ n = Num(0) => reqs[r].params.multi_idea_count = Num(1)
            /\ n = Num(999) => reqs[r].params.multi_idea_count = Num(5)
            /\ n = Undefined => reqs[r].params.multi_idea_count = Num(3)
            /\ d = Undefined => reqs[r].params.time_available_days = Num(7)

\* The request of slot r has been answered after the gateway replied with
\* a success whose content is a string.
HasReply(r) ==
    /\ reqs[r].pc = "done"
    /\ FetchWasDone(r)
    /\ ~reqs[r].gateway.throws
    /\ reqs[r].gateway.status \in 200..299
    /\ ~reqs[r].data.throws
    /\ ~ContentOf(reqs[r].data.v).throws
    /\ ContentOf(reqs[r].data.v).v.t = "string"

\* The content of that reply.
ReplyText(r) == ContentOf(reqs[r].data.v).v.v

\* The JSON texts of the model that encode an object with an ideas list.
IdeasTexts == {J_IDEAS, J_ONE}

\* C16: for a JSON text j that encodes an object with an ideas list, a
\* gateway reply that is j between code fences, with or without the json
\* tag, is parsed directly once the fences are stripped and is answered
\* with the same 200 response body as the reply j alone: the object j
\* encodes.
C16_FencedSameAsPlain ==
    \A r \in Slots : HasReply(r) =>
        \A j \in IdeasTexts :
            ReplyText(r) \in Fenced(j) =>
                /\ DirectParse(ReplyText(r)).ok
                /\ reqs[r].resp.status = 200
                /\ reqs[r].resp.body = JSONparse(j).v
                /\ reqs[r].resp = RecoverStage(Read(Completion(Str(j)))).resp

\* A reply between fences without a tag and without line ends has been
\* answered 200.
C16_Witness ==
    \E r \in Slots :
        /\ HasReply(r)
        /\ ReplyText(r) = FENCE \o J_ONE \o FENCE
        /\ reqs[r].resp.status = 200
        /\ Get(reqs[r].resp.body, "ideas").t = "array"

\* The splits of text into leading prose and a valid JSON object: the
\* lengths k of a prefix that holds a character that is neither white
\* space nor part of a fence, with the rest of the text parsing to an
\* object.
ProseSplits(text) ==
    { k \in 1..(Len(text) - 1) :
        /\ \E i \in 1..k : text[i] \notin WhiteSpace \cup {BT}
        /\ \A i \in 1..k : text[i] # BT
        /\ JSONparse(SubSeq(text, k + 1, Len(text))).ok
        /\ JSONparse(SubSeq(text, k + 1, Len(text))).v.t = "object" }

\* C17 as stated: a gateway reply made of leading prose followed by a valid
\* JSON object fails the direct parse, is recovered by the fallback and
\* yields a 200 response whose body is the embedded object.
C17_ProseRecovered ==
    \A r \in Slots : HasReply(r) =>
        \A k \in ProseSplits(ReplyText(r)) :
            /\ ~DirectParse(ReplyText(r)).ok
            /\ reqs[r].resp.status = 200
            /\ reqs[r].resp.body =
                  JSONparse(SubSeq(ReplyText(r), k + 1, Len(ReplyText(r)))).v

\* C17 amended: a gateway reply made of leading prose that holds no opening
\* brace, followed by a valid JSON object, fails the direct parse, is
\* recovered by the fallback and yields a 200 response whose body is the
\* embedded object; when the prose holds an opening brace, the match starts
\* in the prose and the reply is not answered 200 with the embedded object.
C17_BraceFreeProseRecovered ==
    \A r \in Slots : HasReply(r) =>
        \A k \in ProseSplits(ReplyText(r)) :
            LET object == JSONparse(SubSeq(ReplyText(r), k + 1,
                                           Len(ReplyText(r)))).v
            IN  /\ ~DirectParse(ReplyText(r)).ok
                /\ (\A i \in 1..k : ReplyText(r)[i] # "{") =>
                      /\ reqs[r].resp.status = 200
                      /\ reqs[r].resp.body = object
                /\ (\E i \in 1..k : ReplyText(r)[i] = "{") =>
                      reqs[r].resp.body # object

\* A reply of prose and an object with an idea has been answered 200 with
\* that object.
C17_Witness ==
    \E r \in Slots :
        /\ HasReply(r)
        /\ ReplyText(r) = PROSE \o J_ONE
        /\ reqs[r].resp.status = 200
        /\ reqs[r].resp.body = JSONparse(J_ONE).v

\* The text holds an opening brace and a closing brace after it.
HasBraces(text) ==
    \E i, j \in 1..Len(text) : i < j /\ text[i] = "{" /\ text[j] = "}"

\* The text from its first opening brace to its last closing brace.
BraceSpan(text) ==
    SubSeq(text, Min(Positions(text, "{")), Max(Positions(text, "}")))

\* C18 as stated: a gateway reply that is not valid JSON and holds no
\* substring delimited by an opening and a later closing brace yields 500
\* with the failed-to-generate message; a reply that holds such a substring
\* which does not parse yields 500 with the failed-to-process message.
C18_FailureMessages ==
    \A r \in Slots : HasReply(r) =>
        /\ (~JSONparse(ReplyText(r)).ok /\ ~HasBraces(ReplyText(r))) =>
              /\ reqs[r].resp.status = 500
              /\ reqs[r].resp.body = ErrorBody(MSG_GENERATE)
        /\ (HasBraces(ReplyText(r)) /\ ~JSONparse(BraceSpan(ReplyText(r))).ok) =>
              /\ reqs[r].resp.status = 500
              /\ reqs[r].resp.body = ErrorBody(MSG_PROCESS)

\* C18 amended: a gateway reply that is not valid JSON and holds no
\* substring delimited by an opening and a later closing brace yields 500
\* with the failed-to-generate message; a reply that holds such a substring
\* which does not parse yields 500 with the failed-to-process message,
\* unless the reply with its fence markers stripped parses to an object
\* with an ideas list, which is answered 200 with that object.
C18_FailureMessagesAfterDirectParse ==
    \A r \in Slots : HasReply(r) =>
        /\ (~JSONparse(ReplyText(r)).ok /\ ~HasBraces(ReplyText(r))) =>
              /\ reqs[r].resp.status = 500
              /\ reqs[r].resp.body = ErrorBody(MSG_GENERATE)
        /\ (HasBraces(ReplyText(r)) /\ ~JSONparse(BraceSpan(ReplyText(r))).ok) =>
              IF DirectParse(ReplyText(r)).ok
              THEN /\ reqs[r].resp.status = 200
                   /\ reqs[r].resp.body = DirectParse(ReplyText(r)).v
              ELSE /\ reqs[r].resp.status = 500
                   /\ reqs[r].resp.body = ErrorBody(MSG_PROCESS)

\* A reply of prose and an object that is not closed has been answered
\* with the failed-to-process message.
C18_Witness ==
    \E r \in Slots :
        /\ HasReply(r)
        /\ HasBraces(ReplyText(r))
        /\ ~JSONparse(BraceSpan(ReplyText(r))).ok
        /\ ~DirectParse(ReplyText(r)).ok
        /\ reqs[r].resp.status = 500
        /\ reqs[r].resp.body = ErrorBody(MSG_PROCESS)

\* C19: under every interleaving of the requests of one caller key, with
\* requests suspended at the reading of the body or at the gateway call
\* while others start, the count of the record equals the number of
\* requests that were allowed in the current window (the requests that
\* reached checkRateLimit in it, up to the 20th), and it never exceeds 20:
\* no increment is lost.
C19_NoLostIncrement ==
    \A k \in DOMAIN rateLimitMap :
        /\ k \in DOMAIN seen
        /\ rateLimitMap[k].count <= 20
        /\ rateLimitMap[k].count = IF seen[k] <= 20 THEN seen[k] ELSE 20

\* With one request suspended at the gateway call and one at the reading
\* of its body, both allowed, the caller has reached the limit.
C19_Witness ==
    /\ \E r \in Slots : reqs[r].pc = "fetch" /\ reqs[r].rateCheck.allowed
    /\ \E r \in Slots : reqs[r].pc = "body" /\ reqs[r].rateCheck.allowed
    /\ \E k \in DOMAIN rateLimitMap : rateLimitMap[k].count = 20 /\ seen[k] = 20

\* C20: within a window the resetTime of a record is never changed: a
\* request that is allowed within the window changes only count, by
\* exactly one, a request that is denied leaves count and resetTime as
\* they are, and so does every other step; a request is denied only
\* within the window, so that denied requests do not postpone the moment
\* at which the caller is allowed again.
C20_FixedWindow ==
    [][\A k \in DOMAIN rateLimitMap : now <= rateLimitMap[k].resetTime =>
         LET arrivals == {r \in Slots : ArrivesAt(r) /\ reqs'[r].key = k}
         IN  /\ k \in DOMAIN rateLimitMap'
             /\ rateLimitMap'[k].resetTime = rateLimitMap[k].resetTime
             /\ \A r \in arrivals :
                   IF reqs'[r].rateCheck.allowed
                   THEN rateLimitMap'[k].count = rateLimitMap[k].count + 1
                   ELSE /\ rateLimitMap' = rateLimitMap
                        /\ rateLimitMap[k].count = 20
             /\ arrivals = {} => rateLimitMap'[k] = rateLimitMap[k]
             /\ \A j \in DOMAIN rateLimitMap' \ {k} :
                   j \in DOMAIN rateLimitMap /\ rateLimitMap'[j] = rateLimitMap[j]
      ]_vars

\* A request has been denied at the last millisecond of the window, after
\* the clock had moved within the window.
C20_Witness ==
    \E r \in Slots :
        /\ Answered(r)
        /\ reqs[r].resp.status = 429
        /\ now = rateLimitMap[reqs[r].key].resetTime
        /\ rateLimitMap[reqs[r].key].count = 20

\* The caller key of a request as the headers give it: the first entry of
\* x-forwarded-for, trimmed, if it is not empty, else x-real-ip if it is
\* not empty, else the sentinel.
FirstEntry(s) ==
    IF \E i \in 1..Len(s) : s[i] = ","
    THEN SubSeq(s, 1, Min(Positions(s, ",")) - 1)
    ELSE s

CallerKey(forwarded, realIp) ==
    IF forwarded # Absent /\ trim(FirstEntry(forwarded.v)) # <<>>
    THEN trim(FirstEntry(forwarded.v))
    ELSE IF realIp # Absent /\ realIp.v # <<>> THEN realIp.v
    ELSE <<"u", "n", "k", "n", "o", "w", "n">>

\* C21: a request changes only the rate-limit record of its own caller
\* key, the first entry of x-forwarded-for (trimmed) if not empty, else
\* x-real-ip, else the sentinel unknown; the records of all other keys are
\* unchanged, no record is ever removed from the map, no other step
\* changes the map, and every request without either header is counted
\* under unknown.
C21_OwnKeyOnly ==
    [][/\ DOMAIN rateLimitMap \subseteq DOMAIN rateLimitMap'
       /\ \A r \in Slots : ArrivesAt(r) =>
             LET k == CallerKey(reqs'[r].forwarded, reqs'[r].realIp)
             IN  /\ reqs'[r].key = k
                 /\ DOMAIN rateLimitMap' = DOMAIN rateLimitMap \cup {k}
                 /\ \A j \in DOMAIN rateLimitMap \ {k} :
                       rateLimitMap'[j] = rateLimitMap[j]
                 /\ rateLimitMap'[k].count >= 1
                 /\ (reqs'[r].forwarded = Absent /\ reqs'[r].realIp = Absent) =>
                       k = UNKNOWN
       /\ (\A r \in Slots : ~ArrivesAt(r)) => rateLimitMap' = rateLimitMap
      ]_vars

\* Three caller keys have a record, and a request whose x-forwarded-for is
\* a list is in flight under the first entry of the list.
C21_Witness ==
    /\ DOMAIN rateLimitMap = {<<"1">>, <<"2">>, UNKNOWN}
    /\ \E r \in Slots :
          /\ reqs[r].pc = "body"
          /\ reqs[r].forwarded = Present(<<" ", "1", " ", ",", "2">>)
          /\ reqs[r].realIp = Present(<<"2">>)
          /\ reqs[r].key = <<"1">>
          /\ rateLimitMap[<<"1">>].count = 2

\* The caller key of the headers is at the limit within its window.
AtLimit(forwarded, realIp) ==
    LET k == CallerKey(forwarded, realIp)
    IN  /\ k \in DOMAIN rateLimitMap
        /\ rateLimitMap[k].count = 20
        /\ now <= rateLimitMap[k].resetTime

\* C22: an OPTIONS request is answered at once with an empty body and the
\* CORS headers and has no other effect: the whole rate-limit map stays as
\* it is, also when the caller is at the limit, no body is read and no
\* gateway call is made, and the request takes no further step but the
\* return of its response.
C22_PreflightNoEffect ==
    [][\A r \in Slots :
         /\ (reqs[r].pc = "idle" /\ reqs'[r].pc # "idle"
             /\ reqs'[r].method = "OPTIONS") =>
               /\ reqs'[r].pc = "done"
               /\ reqs'[r].resp.body = Null
               /\ reqs'[r].resp.status \in 200..299
               /\ reqs'[r].resp.headers =
                     { <<"Access-Control-Allow-Origin", "*">>,
                       <<"Access-Control-Allow-Headers",
                         "authorization, x-client-info, apikey, content-type">> }
               /\ rateLimitMap' = rateLimitMap
               /\ reqs'[r].body = Read(Undefined)
               /\ reqs'[r].raw = Absent
               /\ reqs'[r].calls = 0
         /\ (reqs[r].method = "OPTIONS" /\ reqs'[r] # reqs[r]) =>
               /\ reqs[r].pc = "done"
               /\ reqs'[r].pc = "idle"
               /\ rateLimitMap' = rateLimitMap
      ]_vars

\* An OPTIONS request of a caller at the limit has been answered with the
\* CORS headers, the record of the caller still at 20.
C22_Witness ==
    \E r \in Slots :
        /\ reqs[r].pc = "done"
        /\ reqs[r].method = "OPTIONS"
        /\ reqs[r].resp = PreflightResponse
        /\ AtLimit(reqs[r].forwarded, reqs[r].realIp)
        /\ seen[CallerKey(reqs[r].forwarded, reqs[r].realIp)] > 20

====
